---------------------------- MODULE Spec2Model ----------------------------
(***************************************************************************)
(* A model of the OpenAPI spec simplifier component                        *)
(* (src/openapi-simplifier.tsx): the compaction engine (cleanSchemaRef,    *)
(* collectReferencedSchemas, simplifySchema, truncateDescription,          *)
(* simplifySpec) as operators over JavaScript values, and the React        *)
(* component's state (inputSpec, outputSpec, error, yamlParser, the        *)
(* debounce timer) as a state machine.                                     *)
(*                                                                         *)
(* JavaScript values are tagged records:                                   *)
(*   [t |-> "undefined"], [t |-> "null"], [t |-> "boolean", b |-> ...],    *)
(*   [t |-> "number", n |-> ...], [t |-> "NaN"], [t |-> "string", s |-> ..]*)
(*   [t |-> "array", a |-> <<...>>], [t |-> "function"],                   *)
(*   [t |-> "object", k |-> <<keys>>, v |-> <<values>>]                    *)
(* where an object's keys are kept in the order Object.keys enumerates     *)
(* them (integer-like keys ascending, then the others in insertion order). *)
(***************************************************************************)
EXTENDS Integers, Sequences, FiniteSets, TLC

VARIABLES
    inputSpec,    \* useState('') line 21: the text of the input panel
    outputSpec,   \* useState('') line 22: the serialized compact document
    error,        \* useState('') line 23: the message shown under the input
    isProcessing, \* useState(false) line 24
    yamlParser,   \* useState(null) line 25: "null" or "loaded"
    loadState,    \* the promise of loadYAMLParser: "pending", "resolved", "rejected"
    timer,        \* the setTimeout of the debounce effect: "pending" or "none"
    lastRun,      \* the last event, how a processSpec run ended and what it replaced
    source,       \* engine runs: the document as written (declaration order)
    parsed,       \* engine runs: the value JSON.parse returns for it
    simplified,   \* engine runs: what simplifySpec returns (or the exception)
    refs,         \* engine runs: what collectReferencedSchemas returns
    pc,           \* engine runs: position of the run
    schema,       \* schema runs: the schema node
    once,         \* schema runs: simplifySchema(schema)
    twice         \* schema runs: simplifySchema(simplifySchema(schema))

uiVars == <<inputSpec, outputSpec, error, isProcessing, yamlParser, loadState,
            timer, lastRun>>
docVars == <<source, parsed, simplified, refs>>
schemaVars == <<schema, once, twice>>
vars == <<uiVars, docVars, schemaVars, pc>>

-----------------------------------------------------------------------------
(* JavaScript values *)

Undef == [t |-> "undefined"]
Null == [t |-> "null"]
NaN == [t |-> "NaN"]
Func == [t |-> "function"]
True == [t |-> "boolean", b |-> TRUE]
False == [t |-> "boolean", b |-> FALSE]
Num(n) == [t |-> "number", n |-> n]
Str(s) == [t |-> "string", s |-> s]
Arr(a) == [t |-> "array", a |-> a]
EmptyObj == [t |-> "object", k |-> <<>>, v |-> <<>>]

IsStr(x) == x.t = "string"
IsArr(x) == x.t = "array"
IsObj(x) == x.t = "object"
\* typeof x === 'object'
TypeofObject(x) == x.t \in {"object", "array", "null"}
\* x == null (null or undefined): a property read on it throws TypeError
Nullish(x) == x.t \in {"undefined", "null"}

\* ToBoolean
Truthy(x) ==
    CASE x.t \in {"undefined", "null", "NaN"} -> FALSE
      [] x.t = "boolean" -> x.b
      [] x.t = "number" -> x.n # 0
      [] x.t = "string" -> x.s # ""
      [] OTHER -> TRUE

-----------------------------------------------------------------------------
(* Strings *)

Digits == <<"0", "1", "2", "3", "4", "5", "6", "7", "8", "9">>
IsDigit(c) == \E i \in 1..10 : Digits[i] = c
DigitVal(c) == (CHOOSE i \in 1..10 : Digits[i] = c) - 1

Upper == <<"A", "B", "C", "D", "E", "F", "G", "H", "I", "J", "K", "L", "M",
           "N", "O", "P", "Q", "R", "S", "T", "U", "V", "W", "X", "Y", "Z">>
Lower == <<"a", "b", "c", "d", "e", "f", "g", "h", "i", "j", "k", "l", "m",
           "n", "o", "p", "q", "r", "s", "t", "u", "v", "w", "x", "y", "z">>

\* the characters \s matches, among those the model's texts use
IsSpace(c) == c \in {" ", "\n", "\t"}

RECURSIVE toLowerCase(_)
toLowerCase(s) ==
    IF s = "" THEN ""
    ELSE LET c == Head(s)
             lc == IF \E i \in 1..26 : Upper[i] = c
                   THEN Lower[CHOOSE i \in 1..26 : Upper[i] = c]
                   ELSE c
         IN  lc \o toLowerCase(Tail(s))

startsWith(s, p) == Len(s) >= Len(p) /\ SubSeq(s, 1, Len(p)) = p

\* s.replace(p, ''): the first occurrence of p removed
RECURSIVE replaceFirst(_, _)
replaceFirst(s, p) ==
    IF Len(s) < Len(p) THEN s
    ELSE IF startsWith(s, p) THEN SubSeq(s, Len(p) + 1, Len(s))
    ELSE Head(s) \o replaceFirst(Tail(s), p)

RECURSIVE trimStart(_)
trimStart(s) == IF s # "" /\ IsSpace(Head(s)) THEN trimStart(Tail(s)) ELSE s

RECURSIVE trimEnd(_)
trimEnd(s) ==
    IF s # "" /\ IsSpace(SubSeq(s, Len(s), Len(s)))
    THEN trimEnd(SubSeq(s, 1, Len(s) - 1)) ELSE s

trim(s) == trimEnd(trimStart(s))

\* s.replace(/\s+/g, ' '): every run of whitespace becomes one space
RECURSIVE collapseSpaces(_)
collapseSpaces(s) ==
    IF s = "" THEN ""
    ELSE IF IsSpace(Head(s)) THEN " " \o collapseSpaces(trimStart(s))
    ELSE Head(s) \o collapseSpaces(Tail(s))

RECURSIVE AllDigits(_)
AllDigits(s) == s = "" \/ (IsDigit(Head(s)) /\ AllDigits(Tail(s)))

RECURSIVE DecimalValue(_, _)
DecimalValue(s, acc) ==
    IF s = "" THEN acc ELSE DecimalValue(Tail(s), 10 * acc + DigitVal(Head(s)))

\* Number(s) for a string: white space trimmed, '' is 0, a decimal digit
\* string is its value, anything else the model's strings hold is NaN
StringToNumber(s) ==
    LET body == trim(s)
    IN  IF body = "" THEN Num(0)
        ELSE IF AllDigits(body) THEN Num(DecimalValue(body, 0))
        ELSE NaN

\* An array index in the sense of property ordering: the canonical decimal
\* form of an integer below 2^32 - 1
IsArrayIndex(key) ==
    /\ key # ""
    /\ AllDigits(key)
    /\ (Len(key) > 1 => Head(key) # "0")
    /\ Len(key) <= 9

\* String(x) as a template literal `${x}` does it
ToStr(x) ==
    CASE x.t = "string" -> x.s
      [] x.t = "number" -> ToString(x.n)
      [] x.t = "boolean" -> IF x.b THEN "true" ELSE "false"
      [] x.t = "undefined" -> "undefined"
      [] x.t = "null" -> "null"
      [] x.t = "NaN" -> "NaN"
      [] OTHER -> "[object Object]"


-----------------------------------------------------------------------------
(* Objects: own properties in the order Object.keys enumerates them *)

KeyIndex(o, key) == CHOOSE i \in 1..Len(o.k) : o.k[i] = key
Has(o, key) == IsObj(o) /\ \E i \in 1..Len(o.k) : o.k[i] = key

\* o[key] for a non-nullish o (a read on null or undefined throws: the
\* callers below model that where the code can reach it)
Get(o, key) == IF Has(o, key) THEN o.v[KeyIndex(o, key)] ELSE Undef

\* o?.[key]
OptGet(o, key) == IF Nullish(o) THEN Undef ELSE Get(o, key)

\* a || b
OrElse(a, b) == IF Truthy(a) THEN a ELSE b

\* Where a new key goes: integer-like keys in ascending numeric order before
\* every other key, the other keys in insertion order
InsertAt(keys, key) ==
    IF IsArrayIndex(key)
    THEN LET n == DecimalValue(key, 0)
             later == {i \in 1..Len(keys) :
                          ~IsArrayIndex(keys[i]) \/ DecimalValue(keys[i], 0) > n}
         IN  IF later = {} THEN Len(keys) + 1
             ELSE CHOOSE i \in later : \A j \in later : i <= j
    ELSE Len(keys) + 1

Insert(seq, i, x) == SubSeq(seq, 1, i - 1) \o <<x>> \o SubSeq(seq, i, Len(seq))

\* o[key] = val
SetProp(o, key, val) ==
    IF Has(o, key)
    THEN [o EXCEPT !.v[KeyIndex(o, key)] = val]
    ELSE LET i == InsertAt(o.k, key)
         IN  [o EXCEPT !.k = Insert(o.k, i, key), !.v = Insert(o.v, i, val)]

RECURSIVE IndexKeys(_)
IndexKeys(n) == IF n = 0 THEN <<>> ELSE Append(IndexKeys(n - 1), ToString(n - 1))

\* Object.keys(x), Object.values(x)
ObjectKeys(x) ==
    CASE x.t = "object" -> x.k
      [] x.t = "array" -> IndexKeys(Len(x.a))
      [] x.t = "string" -> IndexKeys(Len(x.s))
      [] OTHER -> <<>>
ObjectValues(x) ==
    CASE x.t = "object" -> x.v
      [] x.t = "array" -> x.a
      [] x.t = "string" -> [i \in 1..Len(x.s) |-> Str(SubSeq(x.s, i, i))]
      [] OTHER -> <<>>

\* An object literal written with its properties in this order
RECURSIVE ObjOf(_)
ObjOf(pairs) ==
    IF pairs = <<>> THEN EmptyObj
    ELSE LET rest == ObjOf(SubSeq(pairs, 1, Len(pairs) - 1))
             last == pairs[Len(pairs)]
         IN  [rest EXCEPT !.k = Append(rest.k, last[1]),
                          !.v = Append(rest.v, last[2])]

-----------------------------------------------------------------------------
(* Text: JSON.stringify(value, null, 0) and JSON.parse *)

RECURSIVE stringify(_), stringifyElems(_, _), stringifyProps(_, _, _)
stringify(x) ==
    CASE x.t = "string" -> "\"" \o x.s \o "\""
      [] x.t = "number" -> ToString(x.n)
      [] x.t = "boolean" -> IF x.b THEN "true" ELSE "false"
      [] x.t = "array" -> "[" \o stringifyElems(x.a, 1) \o "]"
      [] x.t = "object" -> "{" \o stringifyProps(x, 1, TRUE) \o "}"
      [] OTHER -> "null"
stringifyElems(a, i) ==
    IF i > Len(a) THEN ""
    ELSE (IF i > 1 THEN "," ELSE "") \o stringify(a[i]) \o stringifyElems(a, i + 1)
\* a property whose value is undefined or a function is left out
stringifyProps(o, i, first) ==
    IF i > Len(o.k) THEN ""
    ELSE IF o.v[i].t \in {"undefined", "function"} THEN stringifyProps(o, i + 1, first)
    ELSE (IF first THEN "" ELSE ",") \o "\"" \o o.k[i] \o "\":" \o stringify(o.v[i])
         \o stringifyProps(o, i + 1, FALSE)

\* The value JSON.parse builds from a document written as `src` (its
\* members in declaration order): each member is defined in turn, so the
\* object's key order is the engine's property order, and a repeated key
\* keeps its last value
RECURSIVE JSONvalue(_), JSONmembers(_, _, _)
JSONvalue(src) ==
    CASE src.t = "object" -> JSONmembers(src, 1, EmptyObj)
      [] src.t = "array" -> Arr([i \in 1..Len(src.a) |-> JSONvalue(src.a[i])])
      [] OTHER -> src
JSONmembers(src, i, acc) ==
    IF i > Len(src.k) THEN acc
    ELSE JSONmembers(src, i + 1, SetProp(acc, src.k[i], JSONvalue(src.v[i])))

-----------------------------------------------------------------------------
(* The compaction engine *)

RefPrefix == "#/components/schemas/"

\* A thrown Error as processSpec's catch sees it. A TypeError's message is
\* the engine's own wording, kept here as one text
Thrown(message) == [t |-> "throw", message |-> message]
TypeError == Thrown("TypeError")
Threw(x) == x.t = "throw"

\* a cleaner that removes every occurrence of the prefix
RECURSIVE replaceEvery(_, _)
replaceEvery(s, p) ==
    IF replaceFirst(s, p) = s THEN s ELSE replaceEvery(replaceFirst(s, p), p)
cleanSchemaRefEvery(ref) ==
    IF ~Truthy(ref) \/ ~IsStr(ref) THEN ref
    ELSE Str(replaceEvery(ref.s, RefPrefix))

cleanSchemaRef(ref) ==
    IF ~Truthy(ref) \/ ~IsStr(ref) THEN ref
    ELSE Str(replaceFirst(ref.s, RefPrefix))

\* refs.add(name) on a Set, kept as the list Array.from gives (insertion order)
SetAdd(set, name) ==
    IF \E i \in 1..Len(set) : set[i] = name THEN set ELSE Append(set, name)

addRef(set, ref) ==
    IF Truthy(ref) /\ IsStr(ref) /\ startsWith(ref.s, RefPrefix)
    THEN SetAdd(set, replaceFirst(ref.s, RefPrefix))
    ELSE set

\* walkObject(obj), as the names it hands to refs.add, in the order of the
\* calls: obj.$ref first, then every value of obj that is an array
\* (element-wise) or an object; an element that is neither returns at once
RECURSIVE walkObject(_), walkValues(_, _), forEachWalk(_, _)
walkObject(obj) ==
    IF ~Truthy(obj) \/ ~TypeofObject(obj) THEN <<>>
    ELSE (IF Truthy(Get(obj, "$ref")) THEN addRef(<<>>, Get(obj, "$ref")) ELSE <<>>)
         \o walkValues(ObjectValues(obj), 1)
\* for (const value of Object.values(obj))
walkValues(vals, i) ==
    IF i > Len(vals) THEN <<>>
    ELSE (IF IsArr(vals[i]) THEN forEachWalk(vals[i].a, 1)
          ELSE IF TypeofObject(vals[i]) THEN walkObject(vals[i])
          ELSE <<>>)
         \o walkValues(vals, i + 1)
\* value.forEach(walkObject)
forEachWalk(elems, i) ==
    IF i > Len(elems) THEN <<>>
    ELSE walkObject(elems[i]) \o forEachWalk(elems, i + 1)

\* refs as a Set: a name added again stays where it was first added
RECURSIVE addAll(_, _, _)
addAll(set, names, i) ==
    IF i > Len(names) THEN set ELSE addAll(SetAdd(set, names[i]), names, i + 1)

seedSchemas == <<"Error", "Granularity", "AggregationFunction", "ResponseFormat">>

\* a seed loop that adds every seed name, defined or not
RECURSIVE addSeedsUnchecked(_, _, _)
addSeedsUnchecked(spec, i, set) ==
    IF i > Len(seedSchemas) THEN set
    ELSE addSeedsUnchecked(spec, i + 1, SetAdd(set, seedSchemas[i]))

RECURSIVE addSeeds(_, _, _)
addSeeds(spec, i, set) ==
    IF i > Len(seedSchemas) THEN set
    ELSE addSeeds(spec, i + 1,
             IF Truthy(OptGet(OptGet(Get(spec, "components"), "schemas"), seedSchemas[i]))
             THEN SetAdd(set, seedSchemas[i]) ELSE set)

\* a collector that walks the whole document, so that it also follows the
\* $refs inside components.schemas
collectReferencedSchemasWholeSpec(spec) ==
    addSeeds(spec, 1, addAll(<<>>, walkObject(spec), 1))

collectReferencedSchemas(spec) ==
    addSeeds(spec, 1,
             IF Truthy(Get(spec, "paths"))
             THEN addAll(<<>>, walkObject(Get(spec, "paths")), 1)
             ELSE <<>>)

\* if (cond) o[key] = val
SetIf(cond, o, key, val) == IF cond THEN SetProp(o, key, val) ELSE o

\* if (schema[key]) simplified[key] = schema[key]
KeepField(out, sch, key) ==
    SetIf(Truthy(Get(sch, key)), out, key, Get(sch, key))

\* lines 111-118: type, format, enum, required, $ref
essentialFields(sch) ==
    SetIf(Truthy(Get(sch, "$ref")),
          KeepField(KeepField(KeepField(KeepField(EmptyObj, sch, "type"),
                                        sch, "format"), sch, "enum"), sch, "required"),
          "$ref", cleanSchemaRef(Get(sch, "$ref")))

\* lines 127-131: the compact "[type] [name]" key for a simple property
compactProperty(acc, key, simplifiedProp) ==
    IF IsStr(simplifiedProp)
    THEN SetProp(acc, simplifiedProp.s \o " " \o key, True)
    ELSE SetProp(acc, key, simplifiedProp)

RECURSIVE simplifySchema(_), simplifyProperties(_, _, _)
simplifySchema(sch) ==
    IF ~Truthy(sch) \/ ~TypeofObject(sch) THEN sch
    ELSE IF Truthy(Get(sch, "type")) /\ Len(ObjectKeys(sch)) = 1
    THEN Get(sch, "type")
    ELSE IF Truthy(Get(sch, "type")) /\ Truthy(Get(sch, "format"))
            /\ Len(ObjectKeys(sch)) = 2
    THEN Str(ToStr(Get(sch, "type")) \o "(" \o ToStr(Get(sch, "format")) \o ")")
    ELSE SetIf(Truthy(Get(sch, "items")),
               SetIf(Truthy(Get(sch, "properties")),
                     essentialFields(sch),
                     "properties",
                     simplifyProperties(Get(sch, "properties"), 1, EmptyObj)),
               "items", simplifySchema(Get(sch, "items")))
\* the loop over Object.entries(schema.properties)
simplifyProperties(properties, i, acc) ==
    IF i > Len(ObjectKeys(properties)) THEN acc
    ELSE simplifyProperties(properties, i + 1,
             compactProperty(acc, ObjectKeys(properties)[i],
                             simplifySchema(ObjectValues(properties)[i])))

maxLength == 100

truncated(cleaned) ==
    IF Len(cleaned) <= maxLength THEN Str(cleaned)
    ELSE Str(SubSeq(cleaned, 1, maxLength) \o "...")

truncateDescription(desc) ==
    IF ~Truthy(desc) \/ ~IsStr(desc) THEN Undef
    ELSE truncated(trim(collapseSpaces(desc.s)))

\* arr.join(sep)
RECURSIVE join(_, _, _)
join(a, i, sep) ==
    IF i > Len(a) THEN ""
    ELSE (IF i > 1 THEN sep ELSE "")
         \o (IF Nullish(a[i]) THEN "" ELSE ToStr(a[i])) \o join(a, i + 1, sep)

Methods == <<"get", "post", "put", "patch", "delete", "head", "options">>
\* [...].includes(method): strict equality with one of the seven names
IncludesMethod(method) == \E i \in 1..Len(Methods) : Methods[i] = method

\* `${p.name}:${p.schema?.type || p.type || 'unknown'}` and the '?' mark
paramBase(p) ==
    ToStr(Get(p, "name")) \o ":"
    \o ToStr(OrElse(OrElse(OptGet(Get(p, "schema"), "type"), Get(p, "type")),
                    Str("unknown")))
    \o (IF Get(p, "required") = False THEN "?" ELSE "")

pathParamStr(p) == Str(paramBase(p))

queryParamStr(p) ==
    Str(paramBase(p)
        \o (IF Truthy(OptGet(Get(p, "schema"), "format"))
            THEN "(" \o ToStr(OptGet(Get(p, "schema"), "format")) \o ")" ELSE "")
        \o (IF Truthy(OptGet(Get(p, "schema"), "enum"))
            THEN "[" \o join(OptGet(Get(p, "schema"), "enum").a, 1, "|") \o "]"
            ELSE ""))

InPath(p) == Get(p, "in") = Str("path")
InQuery(p) == Get(p, "in") = Str("query")
pathParams(parameters) == SelectSeq(parameters.a, InPath)
queryParams(parameters) == SelectSeq(parameters.a, InQuery)

\* if (list.length) e[key] = list.map(render)
withPathParams(e, list) ==
    SetIf(Len(list) # 0, e, "pp", Arr([i \in 1..Len(list) |-> pathParamStr(list[i])]))
withQueryParams(e, list) ==
    SetIf(Len(list) # 0, e, "qp", Arr([i \in 1..Len(list) |-> queryParamStr(list[i])]))
withParameters(e, parameters) ==
    IF Truthy(parameters)
    THEN withQueryParams(withPathParams(e, pathParams(parameters)),
                         queryParams(parameters))
    ELSE e

\* Object.keys(responses || {}).map(Number).filter(c => !isNaN(c))
IsNumber(c) == c # NaN
mapNumber(keys) == [i \in 1..Len(keys) |-> StringToNumber(keys[i])]
\* the status codes without the isNaN filter
statusCodesUnfiltered(responses) ==
    mapNumber(ObjectKeys(OrElse(responses, EmptyObj)))

statusCodes(responses) ==
    SelectSeq(mapNumber(ObjectKeys(OrElse(responses, EmptyObj))), IsNumber)

\* jsonContent?.schema?.$ref of the request body
requestRef(requestBody) ==
    OptGet(OptGet(OptGet(Get(requestBody, "content"), "application/json"),
                  "schema"), "$ref")
\* the schema $ref of responses?.['200'] || responses?.['201']
responseRef(responses) ==
    OptGet(OptGet(OptGet(OptGet(OrElse(OptGet(responses, "200"),
                                       OptGet(responses, "201")),
                                "content"), "application/json"), "schema"), "$ref")

\* Where the body of the loop over one operation throws a TypeError:
\* operation.summary on null, parameters.filter on a non-array, p.in on a
\* null element, enum.join on a non-array
parametersThrow(parameters) ==
    /\ Truthy(parameters)
    /\ \/ ~IsArr(parameters)
       \/ \E i \in 1..Len(parameters.a) : Nullish(parameters.a[i])
       \/ \E i \in 1..Len(parameters.a) :
             /\ InQuery(parameters.a[i])
             /\ Truthy(OptGet(Get(parameters.a[i], "schema"), "enum"))
             /\ ~IsArr(OptGet(Get(parameters.a[i], "schema"), "enum"))
operationThrows(operation) ==
    Nullish(operation) \/ parametersThrow(Get(operation, "parameters"))

withDesc(e, desc) == SetIf(Truthy(desc), e, "desc", desc)
withReq(e, requestBody) ==
    SetIf(Truthy(requestBody) /\ Truthy(requestRef(requestBody)),
          e, "req", cleanSchemaRef(requestRef(requestBody)))
withRes(e, responses) ==
    SetIf(Truthy(responseRef(responses)), e, "res", cleanSchemaRef(responseRef(responses)))

\* lines 172-224: the descriptor of one (path, method) pair; the operation
\* is one on which the loop body does not throw
endpointOf(path, method, operation) ==
    SetProp(
        withRes(
            withReq(
                withParameters(
                    withDesc(ObjOf(<< <<"m", Str(toLowerCase(method))>>,
                                      <<"p", Str(path)>> >>),
                             truncateDescription(
                                 OrElse(Get(operation, "summary"),
                                        Get(operation, "description")))),
                    Get(operation, "parameters")),
                Get(operation, "requestBody")),
            Get(operation, "responses")),
        "codes", Arr(statusCodes(Get(operation, "responses"))))

\* lines 167-227: the two nested loops; the result is the endpoints list,
\* or TypeError as soon as an iteration throws (Object.entries(pathItem) on
\* null, or the loop body)
RECURSIVE overPaths(_, _, _), overMethods(_, _, _, _)
overPaths(paths, i, endpoints) ==
    IF Threw(endpoints) \/ i > Len(ObjectKeys(paths)) THEN endpoints
    ELSE overPaths(paths, i + 1,
             IF Nullish(ObjectValues(paths)[i]) THEN TypeError
             ELSE overMethods(ObjectKeys(paths)[i], ObjectValues(paths)[i], 1, endpoints))
overMethods(path, pathItem, j, endpoints) ==
    IF j > Len(ObjectKeys(pathItem)) THEN endpoints
    ELSE IF ~IncludesMethod(ObjectKeys(pathItem)[j])
    THEN overMethods(path, pathItem, j + 1, endpoints)
    ELSE IF operationThrows(ObjectValues(pathItem)[j]) THEN TypeError
    ELSE overMethods(path, pathItem, j + 1,
             Arr(Append(endpoints.a,
                        endpointOf(path, ObjectKeys(pathItem)[j],
                                   ObjectValues(pathItem)[j]))))

\* lines 233-237: the loop over the referenced names
RECURSIVE overSchemas(_, _, _, _)
overSchemas(schemas, names, i, acc) ==
    IF i > Len(names) THEN acc
    ELSE overSchemas(schemas, names, i + 1,
             SetIf(Truthy(Get(schemas, names[i])), acc, names[i],
                   simplifySchema(Get(schemas, names[i]))))

\* lines 151-156: spec.servers?.[0]?.url, else spec.host
serverUrl(servers) ==
    OptGet(IF IsArr(servers) /\ Len(servers.a) > 0 THEN servers.a[1]
           ELSE OptGet(servers, "0"), "url")
withHost(out, spec) ==
    IF Truthy(serverUrl(Get(spec, "servers")))
    THEN SetProp(out, "host", serverUrl(Get(spec, "servers")))
    ELSE SetIf(Truthy(Get(spec, "host")), out, "host", Get(spec, "host"))

\* lines 158-162
objectKeysArray(x) == Arr([i \in 1..Len(ObjectKeys(x)) |-> Str(ObjectKeys(x)[i])])
withSec(out, secSchemes) ==
    SetIf(Truthy(secSchemes), out, "sec", objectKeysArray(secSchemes))

\* lines 164-227
withEndpoints(out, endpoints) ==
    IF Threw(endpoints) THEN endpoints ELSE SetProp(out, "endpoints", endpoints)

\* lines 229-238
withSchemas(out, schemas, referencedSchemas) ==
    IF Threw(out) THEN out
    ELSE SetIf(Len(referencedSchemas) # 0 /\ Truthy(schemas), out, "schemas",
               overSchemas(schemas, referencedSchemas, 1, EmptyObj))

simplifySpec(spec) ==
    IF Nullish(spec) THEN TypeError
    ELSE withSchemas(
             withEndpoints(
                 withSec(withHost(EmptyObj, spec),
                         OrElse(OptGet(Get(spec, "components"), "securitySchemes"),
                                Get(spec, "securityDefinitions"))),
                 IF Truthy(Get(spec, "paths"))
                 THEN overPaths(Get(spec, "paths"), 1, Arr(<<>>))
                 ELSE Arr(<<>>)),
             OptGet(Get(spec, "components"), "schemas"),
             collectReferencedSchemas(spec))

-----------------------------------------------------------------------------
(* Documents the engine is run on, written in declaration order *)

MaxPaths == 2
MaxMethods == 2
MaxResponses == 3
MaxRefs == 2
MaxDepth == 1

\* the sequences of at most n elements of S, without or with repetition
RECURSIVE DistinctSeqs(_, _), AllSeqs(_, _)
DistinctSeqs(S, n) ==
    IF n = 0 THEN {<<>>}
    ELSE LET shorter == DistinctSeqs(S, n - 1)
         IN  shorter \cup
             {Append(q, x) : <<q, x>> \in
                 {y \in shorter \X S : \A i \in 1..Len(y[1]) : y[1][i] # y[2]}}
AllSeqs(S, n) ==
    IF n = 0 THEN {<<>>}
    ELSE LET shorter == AllSeqs(S, n - 1)
         IN  shorter \cup {Append(y[1], y[2]) : y \in shorter \X S}

RefTo(name) == ObjOf(<< <<"$ref", Str(name)>> >>)
JsonBody(sch) ==
    ObjOf(<< <<"content",
             ObjOf(<< <<"application/json", ObjOf(<< <<"schema", sch>> >>)>> >>)>> >>)

PetSchema ==
    ObjOf(<< <<"type", Str("object")>>,
             <<"required", Arr(<<Str("id"), Str("name")>>)>>,
             <<"properties",
               ObjOf(<< <<"id", ObjOf(<< <<"type", Str("integer")>>,
                                         <<"format", Str("int64")>> >>)>>,
                        <<"name", ObjOf(<< <<"type", Str("string")>> >>)>>,
                        <<"tag", ObjOf(<< <<"type", Str("string")>> >>)>> >>)>> >>)
PetsSchema ==
    ObjOf(<< <<"type", Str("array")>>,
             <<"items", RefTo(RefPrefix \o "Pet")>> >>)
ErrorSchema ==
    ObjOf(<< <<"type", Str("object")>>,
             <<"properties",
               ObjOf(<< <<"code", ObjOf(<< <<"type", Str("integer")>>,
                                           <<"description", Str("code")>> >>)>> >>)>> >>)
PetStore == ObjOf(<< <<"schemas", ObjOf(<< <<"Pet", PetSchema>>,
                                           <<"Pets", PetsSchema>> >>)>> >>)

DocOf(pathItems, components) ==
    ObjOf(<< <<"openapi", Str("3.0.0")>>, <<"paths", pathItems>> >>
          \o (IF components = Undef THEN <<>> ELSE << <<"components", components>> >>))
OneOperation(operation) ==
    DocOf(ObjOf(<< <<"/pets", ObjOf(<< <<"get", operation>> >>)>> >>), PetStore)

\* the keys of `responses`, declared in every order
ResponseKeys == {"200", "201", "404", "default", "2XX", ""}
ResponseOf(key) ==
    CASE key = "200" -> JsonBody(RefTo(RefPrefix \o "Pets"))
      [] key = "201" -> JsonBody(RefTo(RefPrefix \o "Pet"))
      [] OTHER -> ObjOf(<< <<"description", Str("other")>> >>)
ResponsesOf(keys) == ObjOf([i \in 1..Len(keys) |-> <<keys[i], ResponseOf(keys[i])>>])
ResponseDocs ==
    {OneOperation(ObjOf(<< <<"responses", ResponsesOf(keys)>> >>)) :
        keys \in DistinctSeqs(ResponseKeys, MaxResponses)}

\* path items with their child keys in every order and spelling
PathNames == {"/pets", "/pets/{petId}"}
ChildKeys == {"get", "post", "GET", "Post", "parameters"}
ChildOf(key) ==
    CASE key = "parameters" -> Arr(<<>>)
      [] key = "get" -> ObjOf(<< <<"summary", Str("List all pets")>> >>)
      [] OTHER -> EmptyObj
PathItemOf(keys) == ObjOf([i \in 1..Len(keys) |-> <<keys[i], ChildOf(keys[i])>>])
PathItems == {PathItemOf(keys) : keys \in DistinctSeqs(ChildKeys, MaxMethods)}
PathDocs ==
    {DocOf(ObjOf([i \in 1..Len(names) |-> <<names[i], items[i]>>]), Undef) :
        <<names, items>> \in
            {y \in DistinctSeqs(PathNames, MaxPaths) \X AllSeqs(PathItems, MaxPaths) :
                Len(y[1]) = Len(y[2])}}

\* operations and documents with optional parts absent, empty or null
Field(name, value) == IF value = Undef THEN <<>> ELSE << <<name, value>> >>
ParamOf(name, in, extra) ==
    ObjOf(<< <<"name", Str(name)>>, <<"in", Str(in)>> >> \o extra)
ParameterLists ==
    { Undef,
      Arr(<<>>),
      Arr(<< ParamOf("petId", "path",
                 << <<"required", True>>,
                    <<"schema", ObjOf(<< <<"type", Str("string")>> >>)>> >>) >>),
      Arr(<< ParamOf("limit", "query",
                 << <<"required", False>>,
                    <<"schema", ObjOf(<< <<"type", Str("integer")>>,
                                         <<"format", Str("int32")>> >>)>> >>),
             ParamOf("sort", "query",
                 << <<"schema", ObjOf(<< <<"type", Str("string")>>,
                                         <<"enum", Arr(<<Str("asc"), Str("desc")>>)>> >>)>> >>),
             ParamOf("X-Trace", "header", <<>>) >>),
      Arr(<< ParamOf("id", "path", << <<"type", Str("integer")>> >>),
             ParamOf("q", "query", <<>>) >>),
      Arr(<< Null >>) }
RequestBodies ==
    { Undef, EmptyObj, ObjOf(<< <<"content", EmptyObj>> >>),
      JsonBody(RefTo(RefPrefix \o "Pet")),
      JsonBody(ObjOf(<< <<"type", Str("object")>> >>)) }
ResponseMaps ==
    { Undef, EmptyObj,
      ObjOf(<< <<"200", ObjOf(<< <<"description", Str("ok")>> >>)>> >>),
      ObjOf(<< <<"204", ObjOf(<< <<"content", EmptyObj>> >>)>> >>) }
Summaries == { Undef, Str("Create  a pet\n") }
OptionalOperations ==
    { ObjOf(Field("summary", y[1]) \o Field("parameters", y[2])
            \o Field("requestBody", y[3]) \o Field("responses", y[4])) :
        y \in Summaries \X ParameterLists \X RequestBodies \X ResponseMaps }

ServerLists == { Undef, Arr(<<>>),
                 Arr(<< ObjOf(<< <<"url", Str("https://api.petstore.com/v1")>> >>) >>) }
Hosts == { Undef, Str("petstore.swagger.io") }
ComponentMaps ==
    { Undef, EmptyObj,
      ObjOf(<< <<"securitySchemes", ObjOf(<< <<"apiKey", EmptyObj>> >>)>> >>) }
SecurityDefinitions == { Undef, ObjOf(<< <<"basic", EmptyObj>> >>) }
PathMaps ==
    { Undef, Null, EmptyObj,
      ObjOf(<< <<"/pets", Null>> >>),
      ObjOf(<< <<"/pets", EmptyObj>> >>),
      ObjOf(<< <<"/pets", ObjOf(<< <<"get", Null>> >>)>> >>),
      ObjOf(<< <<"/pets", ObjOf(<< <<"get", EmptyObj>> >>)>> >>),
      ObjOf(<< <<"/pets", ObjOf(<< <<"parameters", Null>> >>)>> >>) }
OptionalDocs ==
    {OneOperation(operation) : operation \in OptionalOperations}
    \cup { ObjOf(Field("servers", y[1]) \o Field("host", y[2])
                 \o Field("components", y[3]) \o Field("securityDefinitions", y[4])
                 \o Field("paths", y[5])) :
             y \in ServerLists \X Hosts \X ComponentMaps \X SecurityDefinitions \X PathMaps }
    \cup { Null, Str("petstore") }

\* documents with $refs under `paths`, and schemas defined, null or missing
RefNames == {"Pets", "Pet", "Error", "Missing"}
RefStrings == {RefPrefix \o name : name \in RefNames}
              \cup {"pets.yaml#/components/schemas/Pet"}
\* the i-th $ref of an operation: the 200 response, the schema of a
\* parameter (an array element), the request body
RefOperation(strings) ==
    ObjOf( (IF Len(strings) >= 2
            THEN << <<"parameters",
                      Arr(<< ParamOf("filter", "query",
                                 << <<"schema", RefTo(strings[2])>> >>) >>)>> >>
            ELSE <<>>)
        \o (IF Len(strings) >= 3
            THEN << <<"requestBody", JsonBody(RefTo(strings[3]))>> >>
            ELSE <<>>)
        \o (IF Len(strings) >= 1
            THEN << <<"responses",
                      ObjOf(<< <<"200", JsonBody(RefTo(strings[1]))>> >>)>> >>
            ELSE <<>>)
        \o (IF Len(strings) >= 4
            THEN << <<"callbacks", Arr(<< Arr(<< RefTo(strings[4]) >>) >>)>> >>
            ELSE <<>>) )
SchemaEntries == { Undef, Null }
SchemaMaps ==
    { ObjOf(Field("Pets", IF y[1] = Str("defined") THEN PetsSchema ELSE y[1])
            \o Field("Pet", IF y[2] = Str("defined") THEN PetSchema ELSE y[2])
            \o Field("Error", IF y[3] = Str("defined") THEN ErrorSchema ELSE y[3])) :
        y \in (SchemaEntries \cup {Str("defined")}) \X (SchemaEntries \cup {Str("defined")})
              \X (SchemaEntries \cup {Str("defined")}) }
RefComponents == { Undef, EmptyObj } \cup { ObjOf(<< <<"schemas", m>> >>) : m \in SchemaMaps }
RefDocs ==
    { DocOf(ObjOf(<< <<"/pets", ObjOf(<< <<"post", RefOperation(y[1])>> >>)>> >>), y[2]) :
        y \in AllSeqs(RefStrings, MaxRefs) \X RefComponents }

SourceDocs == ResponseDocs \cup PathDocs \cup OptionalDocs \cup RefDocs

-----------------------------------------------------------------------------
(* Engine runs: a document is parsed, then simplified *)

Idle == Str("idle")

InitUI ==
    /\ inputSpec = ""
    /\ outputSpec = ""
    /\ error = ""
    /\ isProcessing = FALSE
    /\ yamlParser = "null"
    /\ loadState = "pending"
    /\ timer = "pending"
    /\ lastRun = [op |-> "mount", outcome |-> "none", replaced |-> ""]
InitDoc ==
    /\ source = Idle /\ parsed = Undef /\ simplified = Undef /\ refs = <<>>
InitSchema ==
    /\ schema = Idle /\ once = Undef /\ twice = Undef

DocInit ==
    /\ InitUI /\ InitSchema
    /\ source \in SourceDocs
    /\ parsed = Undef /\ simplified = Undef /\ refs = <<>>
    /\ pc = "parse"

\* JSON.parse(text), line 37, on the text of `source`
Parse ==
    /\ pc = "parse"
    /\ parsed' = JSONvalue(source)
    /\ pc' = "simplify"
    /\ UNCHANGED <<uiVars, schemaVars, source, simplified, refs>>

\* simplifySpec(parsed), line 260; refs is what its call of
\* collectReferencedSchemas (line 230) returned, if it got that far
Simplify ==
    /\ pc = "simplify"
    /\ simplified' = simplifySpec(parsed)
    /\ refs' = IF Threw(simplified') THEN <<>> ELSE collectReferencedSchemas(parsed)
    /\ pc' = "done"
    /\ UNCHANGED <<uiVars, schemaVars, source, parsed>>

DocNext == Parse \/ Simplify
SpecDoc == DocInit /\ [][DocNext]_vars

-----------------------------------------------------------------------------
(* simplifySchema applied to its own result *)

\* Schema nodes without `properties`: each of type, format, description and
\* $ref absent or present (format also empty, $ref also with the prefix
\* twice), and `items` absent or a node one level less deep
SchemaTypes == {Undef, Str("string")}
SchemaFormats == {Undef, Str("int32"), Str("")}
SchemaDescriptions == {Undef, Str("A pet")}
SchemaRefs == {Undef, Str(RefPrefix \o "Pet"), Str(RefPrefix \o RefPrefix \o "Pet")}
NodeOf(type, format, description, ref, items) ==
    ObjOf(Field("type", type) \o Field("format", format)
          \o Field("description", description) \o Field("$ref", ref)
          \o Field("items", items))
NodesOver(inner) ==
    {NodeOf(type, format, description, ref, items) :
        type \in SchemaTypes, format \in SchemaFormats,
        description \in SchemaDescriptions, ref \in SchemaRefs,
        items \in inner \cup {Undef}}
RECURSIVE SchemasTo(_)
SchemasTo(depth) == IF depth = 0 THEN NodesOver({}) ELSE NodesOver(SchemasTo(depth - 1))
Schemas == SchemasTo(MaxDepth)

SchemaInit ==
    /\ InitUI /\ InitDoc
    /\ schema \in Schemas
    /\ once = Undef /\ twice = Undef
    /\ pc = "once"

\* simplifySchema(schema), lines 98-140
ApplyOnce ==
    /\ pc = "once"
    /\ once' = simplifySchema(schema)
    /\ pc' = "twice"
    /\ UNCHANGED <<uiVars, docVars, schema, twice>>

\* simplifySchema on what it returned
ApplyTwice ==
    /\ pc = "twice"
    /\ twice' = simplifySchema(once)
    /\ pc' = "done"
    /\ UNCHANGED <<uiVars, docVars, schema, once>>

SchemaNext == ApplyOnce \/ ApplyTwice
SpecSchema == SchemaInit /\ [][SchemaNext]_vars

-----------------------------------------------------------------------------
(* The component: input text, YAML parser load, debounced processSpec *)

\* exampleSpec of loadExample, lines 307-403
ExampleSource ==
    ObjOf(<<
      <<"openapi", Str("3.0.0")>>,
      <<"info", ObjOf(<< <<"title", Str("Pet Store API")>>,
                         <<"description", Str("A simple API for managing pets")>>,
                         <<"version", Str("1.0.0")>> >>)>>,
      <<"servers", Arr(<< ObjOf(<< <<"url", Str("https://api.petstore.com/v1")>> >>) >>)>>,
      <<"paths", ObjOf(<<
        <<"/pets", ObjOf(<<
          <<"get", ObjOf(<<
            <<"summary", Str("List all pets")>>,
            <<"operationId", Str("listPets")>>,
            <<"parameters", Arr(<<
                ParamOf("limit", "query",
                    << <<"description", Str("How many items to return")>>,
                       <<"required", False>>,
                       <<"schema", ObjOf(<< <<"type", Str("integer")>>,
                                            <<"format", Str("int32")>> >>)>> >>) >>)>>,
            <<"responses", ObjOf(<<
                <<"200", ObjOf(<< <<"description", Str("A paged array of pets")>> >>
                               \o << <<"content", Get(JsonBody(RefTo(RefPrefix \o "Pets")),
                                                      "content")>> >>)>> >>)>> >>)>>,
          <<"post", ObjOf(<<
            <<"summary", Str("Create a pet")>>,
            <<"operationId", Str("createPet")>>,
            <<"requestBody", ObjOf(<< <<"required", True>> >>
                               \o << <<"content", Get(JsonBody(RefTo(RefPrefix \o "Pet")),
                                                      "content")>> >>)>>,
            <<"responses", ObjOf(<<
                <<"201", ObjOf(<< <<"description", Str("Pet created")>> >>
                               \o << <<"content", Get(JsonBody(RefTo(RefPrefix \o "Pet")),
                                                      "content")>> >>)>> >>)>> >>)>> >>)>> >>)>>,
      <<"components", PetStore>> >>)

MinimalSource == ObjOf(<< <<"openapi", Str("3.0.0")>>, <<"paths", EmptyObj>> >>)
NullItemSource == ObjOf(<< <<"paths", ObjOf(<< <<"/pets", Null>> >>)>> >>)

\* The texts of the input panel. A JSON text is its document written
\* without insignificant white space (exampleSpec has the same members,
\* indented); YamlText is YAML and not JSON; BadText is neither.
JsonSources == {ExampleSource, MinimalSource, NullItemSource}
exampleSpec == stringify(ExampleSource)
YamlText == "openapi: 3.0.0\npaths: {}"
BadText == "{\"paths\": ["
Texts == {"", " \n"} \cup {stringify(src) : src \in JsonSources} \cup {YamlText, BadText}

\* JSON.parse(text), line 37: the value, or the SyntaxError it throws
JsonTexts == {<<stringify(src), JSONvalue(src)>> : src \in JsonSources}
IsJson(text) == \E pair \in JsonTexts : pair[1] = text
JSONparse(text) ==
    IF IsJson(text)
    THEN (CHOOSE pair \in JsonTexts : pair[1] = text)[2]
    ELSE Thrown("Unexpected token")

\* yamlParser.load(text), line 45: a JSON text is YAML for the same value
IsYaml(text) == IsJson(text) \/ text = YamlText
yamlLoad(text) ==
    IF IsJson(text) THEN JSONparse(text)
    ELSE IF text = YamlText THEN JSONvalue(MinimalSource)
    ELSE Thrown("unexpected end of the stream within a flow collection")

NotLoadedYet == "YAML parser not loaded yet"
InvalidFormat == "Invalid JSON or YAML format: "

\* lines 34-50
parseSpec(text, parser) ==
    IF ~Threw(JSONparse(text)) THEN JSONparse(text)
    ELSE IF parser = "null" THEN Thrown(NotLoadedYet)
    ELSE IF ~Threw(yamlLoad(text)) THEN yamlLoad(text)
    ELSE Thrown(InvalidFormat \o yamlLoad(text).message)

\* line 260: simplifySpec(parsed), unless parseSpec threw
simplifyParsed(value) == IF Threw(value) THEN value ELSE simplifySpec(value)

ProcessingError == "Error processing spec: "
PleaseWait == "YAML parser not loaded yet, please wait..."

\* a catch branch that reports the error and leaves the output as it was
finishRunKeepingOutput(result, output) ==
    IF Threw(result)
    THEN [outputSpec |-> output, error |-> ProcessingError \o result.message,
          outcome |-> "error"]
    ELSE [outputSpec |-> stringify(result), error |-> "", outcome |-> "ok"]

\* lines 258-268: the try, the catch and the finally of processSpec
finishRun(result, output) ==
    IF Threw(result)
    THEN [outputSpec |-> "", error |-> ProcessingError \o result.message,
          outcome |-> "error"]
    ELSE [outputSpec |-> stringify(result), error |-> "", outcome |-> "ok"]

\* lines 259-260 for each text of the panel, computed once; yamlParser is
\* loaded when a run gets there (line 250)
tryBlock == [text \in Texts |-> simplifyParsed(parseSpec(text, "loaded"))]

\* lines 243-269: what one run of processSpec leaves in outputSpec and
\* error; a run that sets neither keeps what was there
processSpec(input, parser, output) ==
    IF trim(input) = ""
    THEN [outputSpec |-> "", error |-> "", outcome |-> "empty"]
    ELSE IF parser = "null"
    THEN [outputSpec |-> output, error |-> PleaseWait, outcome |-> "unavailable"]
    ELSE finishRun(tryBlock[input], output)

Event(op) == [op |-> op, outcome |-> "none", replaced |-> ""]

UIInit ==
    /\ InitUI /\ InitDoc /\ InitSchema
    /\ pc = "ui"

\* setInputSpec(text), lines 441 and 404; processSpec is a new callback, the
\* effect of lines 272-278 clears the pending timeout and sets a new one
setInputSpec(text) ==
    /\ pc = "ui"
    /\ text # inputSpec
    /\ inputSpec' = text
    /\ timer' = "pending"
    /\ lastRun' = Event("edit")
    /\ UNCHANGED <<outputSpec, error, isProcessing, yamlParser, loadState,
                   docVars, schemaVars, pc>>

\* onChange of the textarea, line 441
Edit == \E text \in Texts : setInputSpec(text)

\* loadExample, lines 306-405
LoadExample == setInputSpec(exampleSpec)

\* line 30: the script loaded, setYamlParser(parser); processSpec is a new
\* callback and the effect sets a new timeout
LoadResolved ==
    /\ pc = "ui"
    /\ loadState = "pending"
    /\ loadState' = "resolved"
    /\ yamlParser' = "loaded"
    /\ timer' = "pending"
    /\ lastRun' = Event("load")
    /\ UNCHANGED <<inputSpec, outputSpec, error, isProcessing, docVars, schemaVars, pc>>

\* lines 15 and 31: the script failed to load
LoadRejected ==
    /\ pc = "ui"
    /\ loadState = "pending"
    /\ loadState' = "rejected"
    /\ error' = "Failed to load YAML parser: " \o "Failed to load YAML parser"
    /\ lastRun' = Event("loadError")
    /\ UNCHANGED <<inputSpec, outputSpec, isProcessing, yamlParser, timer,
                   docVars, schemaVars, pc>>

Ran(run) ==
    /\ outputSpec' = run.outputSpec
    /\ error' = run.error
    /\ lastRun' = [op |-> "run", outcome |-> run.outcome, replaced |-> outputSpec]

\* lines 273-275: the timeout fires and processSpec runs; its continuation
\* after the await is a microtask, so the run is over before the next event
TimerFire ==
    /\ pc = "ui"
    /\ timer = "pending"
    /\ timer' = "none"
    /\ Ran(processSpec(inputSpec, yamlParser, outputSpec))
    /\ isProcessing' = FALSE
    /\ UNCHANGED <<inputSpec, yamlParser, loadState, docVars, schemaVars, pc>>

Next == Edit \/ LoadExample \/ LoadResolved \/ LoadRejected \/ TimerFire
Spec == UIInit /\ [][Next]_vars
\* a timeout that is set and not cleared fires
FairSpec == Spec /\ WF_vars(TimerFire)

-----------------------------------------------------------------------------
(* What a document says, read off the document itself *)

Range(seq) == {seq[i] : i \in 1..Len(seq)}

\* the run of simplifySpec ended and returned a compact document
Returned == pc = "done" /\ ~Threw(simplified)

\* the names of the internal $refs anywhere under a value
RECURSIVE RefsUnder(_)
RefsUnder(x) ==
    CASE x.t = "object" ->
            (IF IsStr(Get(x, "$ref")) /\ startsWith(Get(x, "$ref").s, RefPrefix)
             THEN {SubSeq(Get(x, "$ref").s, Len(RefPrefix) + 1, Len(Get(x, "$ref").s))}
             ELSE {})
            \cup UNION {RefsUnder(x.v[i]) : i \in 1..Len(x.v)}
      [] x.t = "array" -> UNION {RefsUnder(x.a[i]) : i \in 1..Len(x.a)}
      [] OTHER -> {}
RefsUnderPaths(doc) == RefsUnder(OptGet(doc, "paths"))

SchemasOf(doc) == OptGet(OptGet(doc, "components"), "schemas")
\* the keys of components.schemas, and those whose value is truthy
DefinedNames(doc) == IF IsObj(SchemasOf(doc)) THEN Range(SchemasOf(doc).k) ELSE {}
TruthyNames(doc) == {n \in DefinedNames(doc) : Truthy(Get(SchemasOf(doc), n))}
SeedNames == Range(seedSchemas)

\* the keys of the `schemas` map of a compact document
OutputSchemaNames(out) ==
    IF IsObj(Get(out, "schemas")) THEN Range(Get(out, "schemas").k) ELSE {}

\* the (method, path) of every child key of every path item that is one of
\* the seven method names when lowercased, in document order
RECURSIVE MethodPairsOfItem(_, _, _), MethodPairsOfPaths(_, _)
MethodPairsOfItem(path, item, j) ==
    IF j > Len(item.k) THEN <<>>
    ELSE (IF toLowerCase(item.k[j]) \in Range(Methods)
          THEN << <<toLowerCase(item.k[j]), path>> >> ELSE <<>>)
         \o MethodPairsOfItem(path, item, j + 1)
MethodPairsOfPaths(paths, i) ==
    IF i > Len(paths.k) THEN <<>>
    ELSE (IF IsObj(paths.v[i]) THEN MethodPairsOfItem(paths.k[i], paths.v[i], 1)
          ELSE <<>>)
         \o MethodPairsOfPaths(paths, i + 1)
MethodPairs(doc) ==
    IF IsObj(OptGet(doc, "paths")) THEN MethodPairsOfPaths(Get(doc, "paths"), 1) ELSE <<>>

\* the (m, p) of the descriptors of a compact document
DescriptorPairs(out) ==
    [i \in 1..Len(Get(out, "endpoints").a) |->
        <<Get(Get(out, "endpoints").a[i], "m").s, Get(Get(out, "endpoints").a[i], "p").s>>]

\* the operations written under the seven method names, in document order
RECURSIVE OperationsOfItem(_, _), OperationsOfPaths(_, _)
OperationsOfItem(item, j) ==
    IF j > Len(item.k) THEN <<>>
    ELSE (IF item.k[j] \in Range(Methods) THEN <<item.v[j]>> ELSE <<>>)
         \o OperationsOfItem(item, j + 1)
OperationsOfPaths(paths, i) ==
    IF i > Len(paths.k) THEN <<>>
    ELSE (IF IsObj(paths.v[i]) THEN OperationsOfItem(paths.v[i], 1) ELSE <<>>)
         \o OperationsOfPaths(paths, i + 1)
Operations(doc) ==
    IF IsObj(OptGet(doc, "paths")) THEN OperationsOfPaths(Get(doc, "paths"), 1) ELSE <<>>

\* the keys of an operation's responses as the document declares them
DeclaredKeys(operation) ==
    IF IsObj(OptGet(operation, "responses")) THEN Get(operation, "responses").k ELSE <<>>
IsNumericKey(key) == key # "" /\ AllDigits(key)
\* the numeric keys in declaration order, as numbers
DeclaredCodes(operation) ==
    [i \in 1..Len(SelectSeq(DeclaredKeys(operation), IsNumericKey)) |->
        Num(DecimalValue(SelectSeq(DeclaredKeys(operation), IsNumericKey)[i], 0))]

RECURSIVE Ascending(_)
Ascending(S) ==
    IF S = {} THEN <<>>
    ELSE <<Num(CHOOSE n \in S : \A m \in S : n <= m)>>
         \o Ascending(S \ {CHOOSE n \in S : \A m \in S : n <= m})
IsOtherNumber(key) == ~IsArrayIndex(key) /\ StringToNumber(key) # NaN
\* Number(key) of the keys in Object.keys order: the integer keys ascending,
\* then the other keys as declared; the keys that give NaN left out
EnumeratedCodes(operation) ==
    Ascending({DecimalValue(k, 0) : k \in {x \in Range(DeclaredKeys(operation)) : IsArrayIndex(x)}})
    \o [i \in 1..Len(SelectSeq(DeclaredKeys(operation), IsOtherNumber)) |->
           StringToNumber(SelectSeq(DeclaredKeys(operation), IsOtherNumber)[i])]

CodesOf(out, i) == Get(Get(out, "endpoints").a[i], "codes").a

-----------------------------------------------------------------------------
(* Claims about the engine, checked under SpecDoc *)

\* C1 (as claimed): the descriptors are exactly the (lowercased child key,
\* path) pairs of the child keys that match one of the seven method names
\* case-insensitively, in document order.
C1_DescriptorPerMethodKeyAnyCase ==
    Returned => DescriptorPairs(simplified) = MethodPairs(source)

\* C2 (as claimed): the keys of the output `schemas` are the names referenced
\* under `paths`, plus the seed names that are keys of components.schemas,
\* intersected with the keys of components.schemas.
C2_SchemasAreReferencedDefinedNames ==
    Returned =>
        OutputSchemaNames(simplified) =
            (RefsUnderPaths(parsed) \cup (SeedNames \cap DefinedNames(parsed)))
            \cap DefinedNames(parsed)

\* C2 (amended): the keys of the output `schemas` are the names referenced by
\* an internal $ref under `paths`, and the seed names, that components.schemas
\* maps to a truthy value; a name referenced only from inside another schema
\* is not among them.
C2_SchemasAreReferencedTruthyNames ==
    Returned =>
        OutputSchemaNames(simplified) =
            (RefsUnderPaths(parsed) \cup SeedNames) \cap TruthyNames(parsed)

\* C2 witness: Pets is referenced under paths and output, Pet is defined and
\* referenced by Pets.items only, and is not output.
C2_Witness ==
    /\ Returned
    /\ OutputSchemaNames(simplified) = {"Pets"}
    /\ "Pet" \in TruthyNames(parsed)
    /\ "Pet" \in RefsUnder(Get(SchemasOf(parsed), "Pets"))
    /\ "Pet" \notin RefsUnderPaths(parsed)

\* C3 (as claimed): every name collectReferencedSchemas returns is a key of
\* components.schemas.
C3_ReferencedNamesAreDefined ==
    Returned => Range(refs) \subseteq DefinedNames(parsed)

\* C3 (amended): the list collectReferencedSchemas returns holds, once each,
\* the names of the internal $refs under `paths`, defined or not, and the
\* seed names that components.schemas maps to a truthy value; so a name of
\* the list that no $ref under `paths` names is a key of components.schemas.
C3_ReferencedNamesAreRefsOrDefinedSeeds ==
    Returned =>
        /\ Range(refs) = RefsUnderPaths(parsed) \cup (SeedNames \cap TruthyNames(parsed))
        /\ Cardinality(Range(refs)) = Len(refs)
        /\ Range(refs) \ RefsUnderPaths(parsed) \subseteq DefinedNames(parsed)

\* C3 witness: the list holds a name no schema defines (from a $ref) and a
\* seed name that is defined and not referenced.
C3_Witness ==
    /\ Returned
    /\ "Missing" \in Range(refs)
    /\ "Missing" \notin DefinedNames(parsed)
    /\ "Error" \in Range(refs)
    /\ "Error" \notin RefsUnderPaths(parsed)

\* the documents C5 is about: objects in which parts are absent, or a path
\* item or an operation is null (no null member in a parameters list)
RECURSIVE NoNullParameter(_)
NoNullParameter(x) ==
    CASE x.t = "object" ->
            /\ IsArr(Get(x, "parameters")) =>
                   \A i \in 1..Len(Get(x, "parameters").a) : ~Nullish(Get(x, "parameters").a[i])
            /\ \A i \in 1..Len(x.v) : NoNullParameter(x.v[i])
      [] OTHER -> TRUE

\* C5 (as claimed): simplifySpec does not throw on a parsed document with
\* parts absent or a null path item or operation, and `endpoints` is always
\* present.
C5_NeverThrows ==
    (pc = "done" /\ IsObj(parsed) /\ NoNullParameter(parsed)) =>
        /\ ~Threw(simplified)
        /\ IsArr(Get(simplified, "endpoints"))

\* C8 (as claimed): the codes of every descriptor are the numeric keys of the
\* operation's responses in the order the document declares them (stated
\* for responses without an empty key, which Number turns into 0).
C8_CodesInDeclarationOrder ==
    Returned =>
        \A i \in 1..Len(Operations(source)) :
            "" \notin Range(DeclaredKeys(Operations(source)[i])) =>
                CodesOf(simplified, i) = DeclaredCodes(Operations(source)[i])

\* C8 (amended): the codes of every descriptor are Number(key) of the keys of
\* the operation's responses in Object.keys order (integer keys ascending,
\* then the other keys as declared), without the keys that give NaN; no
\* responses, no codes.
C8_CodesInKeyOrder ==
    Returned =>
        /\ Len(Get(simplified, "endpoints").a) = Len(Operations(source))
        /\ \A i \in 1..Len(Operations(source)) :
              CodesOf(simplified, i) = EnumeratedCodes(Operations(source)[i])

\* C8 witness: 404 is declared before 200 and default, and the codes are
\* 200, 404.
C8_Witness ==
    /\ Returned
    /\ Len(Operations(source)) = 1
    /\ DeclaredKeys(Operations(source)[1]) = <<"404", "default", "200">>
    /\ CodesOf(simplified, 1) = <<Num(200), Num(404)>>

-----------------------------------------------------------------------------
(* What a schema node says, read off the node itself *)

KeptFields == {"type", "format", "enum", "required", "$ref", "items"}
Kept(node) == {key \in KeptFields : Truthy(Get(node, key))}
OnlyType(node) == Truthy(Get(node, "type")) /\ Len(node.k) = 1
OnlyTypeAndFormat(node) ==
    Truthy(Get(node, "type")) /\ Truthy(Get(node, "format")) /\ Len(node.k) = 2
\* a $ref that still holds the prefix when its first occurrence is removed
PrefixedTwice(ref) ==
    IsStr(ref) /\ replaceFirst(replaceFirst(ref.s, RefPrefix), RefPrefix)
                  # replaceFirst(ref.s, RefPrefix)
\* A node whose compact form is compacted further: next to type (and
\* format) it has only keys that are not kept, or its $ref holds the
\* prefix twice, or its items is such a node
RECURSIVE Unsettled(_)
Unsettled(node) ==
    /\ IsObj(node)
    /\ ~OnlyType(node) /\ ~OnlyTypeAndFormat(node)
    /\ \/ Kept(node) \in {{"type"}, {"type", "format"}}
       \/ PrefixedTwice(Get(node, "$ref"))
       \/ Unsettled(Get(node, "items"))

-----------------------------------------------------------------------------
(* What the panel shows after a run *)

\* the state is the one a run of processSpec left
AfterRun == pc = "ui" /\ lastRun.op = "run"
NonEmptyTexts == {text \in Texts : trim(text) # ""}
IsParserUnavailable(message) ==
    message \in {PleaseWait, ProcessingError \o NotLoadedYet}
IsFormatError(message) == startsWith(message, ProcessingError \o InvalidFormat)
\* the text is valid JSON and simplifySpec returns for its document
Compactable(text) == IsJson(text) /\ ~Threw(simplifySpec(JSONparse(text)))
CompactOf(value) == stringify(simplifySpec(value))

\* C4 (as claimed): after a run on non-empty input, valid JSON (that
\* simplifySpec accepts) shows its compact output and no error whether or not
\* the YAML parser is loaded; the 'YAML parser not loaded yet' message is
\* shown only for input that is not JSON while the parser is not loaded, and
\* the format error only when the input is neither JSON nor YAML.
C4_ValidJsonNeedsNoYamlParser ==
    AfterRun /\ trim(inputSpec) # "" =>
        /\ Compactable(inputSpec) =>
              error = "" /\ outputSpec = CompactOf(JSONparse(inputSpec))
        /\ IsParserUnavailable(error) => ~IsJson(inputSpec) /\ yamlParser = "null"
        /\ IsFormatError(error) => ~IsJson(inputSpec) /\ ~IsYaml(inputSpec)

\* C6: no state shows a non-empty error together with a non-empty output,
\* and a run on empty or whitespace-only input leaves both empty.
C6_ErrorMeansNoOutput ==
    /\ error # "" => outputSpec = ""
    /\ AfterRun /\ trim(inputSpec) = "" => outputSpec = "" /\ error = ""

\* a run ended with an error and cleared the output of an earlier run
C6_Witness ==
    /\ AfterRun
    /\ lastRun.replaced # ""
    /\ error # "" /\ outputSpec = ""

\* the run the claim waits for: the parser is loaded, the message is gone
\* and the panel shows the compact document of x, or a format error and no
\* output
Resolved(x) ==
    /\ AfterRun /\ yamlParser = "loaded"
    /\ ~IsParserUnavailable(error)
    /\ \/ /\ error = ""
          /\ ~Threw(simplifyParsed(parseSpec(x, "loaded")))
          /\ outputSpec = CompactOf(parseSpec(x, "loaded"))
       \/ IsFormatError(error) /\ outputSpec = ""

\* C9 (as claimed): once the parser is loaded and the input is a non-empty
\* text x, either the input changes or a run ends with the compact document
\* of x, or a format error and empty output, in place of the 'not loaded
\* yet' message.
C9_LoadedParserResolvesInput ==
    \A x \in NonEmptyTexts :
        (yamlParser = "loaded" /\ inputSpec = x) ~> (inputSpec # x \/ Resolved(x))

\* What holds of C9: the run happens without an edit, and ends with the
\* compact document or with an error of processSpec's catch and no output
C9_LoadedParserRunsInput ==
    \A x \in NonEmptyTexts :
        (yamlParser = "loaded" /\ inputSpec = x) ~>
            \/ inputSpec # x
            \/ Resolved(x)
            \/ /\ AfterRun /\ outputSpec = ""
               /\ startsWith(error, ProcessingError) /\ ~IsParserUnavailable(error)

\* C10 (as claimed): whenever the output is non-empty, so that line 489
\* divides by inputSpec.length, the input has length greater than 0.
C10_MetricInputNonEmpty ==
    outputSpec # "" => Len(inputSpec) > 0
====
